---- MODULE Spec2Model ----
(***************************************************************************)
(* Connection helper of tokio-tungstenite (src/src/connect.rs).            *)
(*                                                                         *)
(* One connection attempt is modelled: the caller invokes either           *)
(* connect_async(request) or client_async_tls(request, stream); the async  *)
(* function then runs statement by statement, suspending at its three      *)
(* await points (TcpStream::connect, TlsConnector::connect, client_async). *)
(* The build feature "tls" selects which encryption module is compiled.    *)
(*                                                                         *)
(* Option<T> values are sets with at most one element: None is {} and      *)
(* Some(x) is {x}.                                                         *)
(***************************************************************************)
EXTENDS Integers, Sequences, FiniteSets, TLC

VARIABLES
    tls,          \* cfg(feature = "tls") of the build
    env,          \* what the external collaborators answer in this attempt
    entry,        \* the public function the caller invoked
    pc,           \* position of the async task
    ca_arg,       \* connect_async: parameter request: R
    ca_request,   \* connect_async: let request (line 128)
    ca_domain,    \* connect_async: let domain (line 130)
    ca_port,      \* connect_async: let port (line 131)
    ca_addr,      \* connect_async: let addr (line 141), as <<host, port>>
    ct_arg,       \* client_async_tls: parameter request: R
    ct_request,   \* client_async_tls: let request (line 108)
    ct_domain,    \* client_async_tls: let domain (line 112)
    ct_mode,      \* client_async_tls: let mode (line 115)
    ws_call,      \* the arguments wrap_stream was called with
    socket,       \* the raw stream S (TcpStream or the caller's stream)
    tlsSession,   \* the TlsStream<S> built over the socket
    stream,       \* the AutoStream<S> wrap_stream returned
    hs,           \* the protocol handshake run by client_async
    result,       \* what the caller received
    error,        \* the Error the caller received
    trace,        \* history: the stages executed, in order
    peer,         \* the state of a second, concurrent attempt (a record of the above)
    io            \* a stream S used directly, and the same stream behind the switch

vars == <<tls, env, entry, pc, ca_arg, ca_request, ca_domain, ca_port, ca_addr,
          ct_arg, ct_request, ct_domain, ct_mode, ws_call, socket, tlsSession,
          stream, hs, result, error, trace, peer, io>>

ca_locals == <<ca_arg, ca_request, ca_domain, ca_port, ca_addr>>
ct_locals == <<ct_arg, ct_request, ct_domain, ct_mode, ws_call>>
resources == <<socket, tlsSession, stream, hs>>

(***************************************************************************)
(* Inputs                                                                  *)
(***************************************************************************)
NumHosts == 2

None == {}
Some(x) == {x}
Opt(S) == {None} \cup {Some(x) : x \in S}
The(o) == CHOOSE x \in o : TRUE

Hosts == 1..NumHosts
Schemes == {"ws", "wss", "ftp"}
ExplicitPorts == {80, 443, 8080}

\* The canonical Request, reduced to the parts of its URI the helper reads:
\* uri().scheme_str(), uri().host(), uri().port_u16().
Request == [scheme : Opt(Schemes), host : Opt(Hosts), port : Opt(ExplicitPorts)]

\* A value of a type R: IntoClientRequest: whether it converts, and to what.
IntoClientRequest == [convertible : BOOLEAN, uri : Request]

\* The answers of the external collaborators, should they be asked: whether the
\* socket connects, whether the TLS connector builds, whether the TLS handshake
\* round trips succeed, which certificate the server presents (issued by a
\* trusted chain or not, naming the host or not), whether client_async succeeds.
Env == [connectOk : BOOLEAN, builderOk : BOOLEAN, tlsOk : BOOLEAN,
        certTrusted : BOOLEAN, certMatchesHost : BOOLEAN, handshakeOk : BOOLEAN]

(***************************************************************************)
(* tungstenite::Error values the helper returns                            *)
(***************************************************************************)
ErrRequest == [variant |-> "Request", msg |-> "into_client_request failed"]
ErrNoHost == [variant |-> "Url", msg |-> "no host name in the url"]
ErrPortScheme == [variant |-> "Url", msg |-> "Url scheme not supported"]
ErrModeScheme == [variant |-> "Url", msg |-> "URL scheme not supported"]
ErrNoTls == [variant |-> "Url", msg |-> "TLS support not compiled in."]
ErrIo == [variant |-> "Io", msg |-> "connect"]
ErrTls == [variant |-> "Tls", msg |-> "tls"]
ErrHandshake == [variant |-> "Handshake", msg |-> "client_async failed"]

DefaultWssPort == 443
DefaultWsPort == 80

(***************************************************************************)
(* Pure functions                                                          *)
(***************************************************************************)
\* Results are [ok |-> TRUE, val |-> v] or [ok |-> FALSE, err |-> e].
Ok(v) == [ok |-> TRUE, val |-> v]
Err(e) == [ok |-> FALSE, err |-> e]

\* request.into_client_request()
into_client_request(r) ==
    IF r.convertible THEN Ok(r.uri) ELSE Err(ErrRequest)

\* Mutant of domain: a missing host becomes the empty name (0) instead of an error.
domain_OrEmpty(request) ==
    IF request.host # None THEN Ok(The(request.host)) ELSE Ok(0)

\* fn domain(request: &Request) -> Result<String, Error>
domain(request) ==
    IF request.host # None THEN Ok(The(request.host)) ELSE Err(ErrNoHost)

\* Mutant of resolve_port: the catch-all arm defaults instead of failing.
resolve_port_DefaultAll(request) ==
    IF request.port # None THEN Ok(The(request.port))
    ELSE IF request.scheme = Some("wss") THEN Ok(DefaultWssPort)
    ELSE Ok(DefaultWsPort)

\* Mutant of resolve_port: the scheme's default wins over the explicit port.
resolve_port_SchemeFirst(request) ==
    IF request.scheme = Some("wss") THEN Ok(DefaultWssPort)
    ELSE IF request.scheme = Some("ws") THEN Ok(DefaultWsPort)
    ELSE IF request.port # None THEN Ok(The(request.port))
    ELSE Err(ErrPortScheme)

\* request.uri().port_u16().or_else(default by scheme).ok_or_else(Error::Url)
resolve_port(request) ==
    IF request.port # None THEN Ok(The(request.port))
    ELSE IF request.scheme = Some("wss") THEN Ok(DefaultWssPort)
    ELSE IF request.scheme = Some("ws") THEN Ok(DefaultWsPort)
    ELSE Err(ErrPortScheme)

\* tungstenite::client::uri_mode(&request.uri())
uri_mode(request) ==
    IF request.scheme = Some("ws") THEN Ok("Plain")
    ELSE IF request.scheme = Some("wss") THEN Ok("Tls")
    ELSE Err(ErrModeScheme)

\* let mut builder = TlsConnector::builder();
\* builder.danger_accept_invalid_hostnames(true); builder.use_sni(false);
\* danger_accept_invalid_certs is not called and keeps its default, false.
TlsConnectorBuilder ==
    [accept_invalid_certs |-> FALSE, accept_invalid_hostnames |-> TRUE, use_sni |-> FALSE]

\* stream.connect(&domain, socket).await: the handshake of the TLS library under
\* the connector's settings, against the server answering as in e.
tls_connect(connector, e) ==
    IF /\ e.tlsOk
       /\ (connector.accept_invalid_certs \/ e.certTrusted)
       /\ (connector.accept_invalid_hostnames \/ e.certMatchesHost)
    THEN Ok("TlsStream")
    ELSE Err(ErrTls)

\* Dropping an owned socket or session closes it.
Release(r) == IF r = "none" THEN "none" ELSE "closed"

\* An attempt that has not been started, with collaborators answering as in e.
IdleAttempt(e) ==
    [env |-> e, entry |-> "none", pc |-> "idle",
     ca_arg |-> None, ca_request |-> None, ca_domain |-> None, ca_port |-> None,
     ca_addr |-> None, ct_arg |-> None, ct_request |-> None, ct_domain |-> None,
     ct_mode |-> None, ws_call |-> None,
     socket |-> "none", tlsSession |-> "none", stream |-> "none", hs |-> "none",
     result |-> "pending", error |-> None, trace |-> <<>>]

\* A stream S: the bytes still to be read from it, the bytes written to it, how
\* many of them were flushed, and whether its write side was shut down.
NewStream(rx) == [rx |-> rx, tx |-> <<>>, flushed |-> 0, shut |-> FALSE]

\* The result of an operation on a stream.
IoResult(op, ok, bytes) == [op |-> op, ok |-> ok, bytes |-> bytes]

\* No stream is being exercised.
IoIdle ==
    [n |-> 0, direct |-> NewStream(<<>>), variant |-> "Plain", inner |-> NewStream(<<>>),
     resDirect |-> IoResult("none", TRUE, <<>>), resSwitch |-> IoResult("none", TRUE, <<>>)]

(***************************************************************************)
(* Initial state: the build is fixed, nothing has been called              *)
(***************************************************************************)
Init ==
    /\ tls \in BOOLEAN
    /\ env \in Env
    /\ entry = "none"
    /\ pc = "idle"
    /\ ca_arg = None /\ ca_request = None /\ ca_domain = None
    /\ ca_port = None /\ ca_addr = None
    /\ ct_arg = None /\ ct_request = None /\ ct_domain = None
    /\ ct_mode = None /\ ws_call = None
    /\ socket = "none" /\ tlsSession = "none" /\ stream = "none" /\ hs = "none"
    /\ result = "pending"
    /\ error = None
    /\ trace = <<>>
    /\ peer = IdleAttempt(env)
    /\ io = IoIdle

\* Mutant of Fail: the error is returned but the socket is kept alive.
Fail_Leak(e) ==
    /\ pc' = "done"
    /\ result' = "Err"
    /\ error' = Some(e)
    /\ socket' = socket
    /\ tlsSession' = tlsSession
    /\ stream' = "none"

\* `return Err(e)` (the ? operator): the task ends, everything it owns is dropped.
Fail(e) ==
    /\ pc' = "done"
    /\ result' = "Err"
    /\ error' = Some(e)
    /\ socket' = Release(socket)
    /\ tlsSession' = Release(tlsSession)
    /\ stream' = "none"

(***************************************************************************)
(* connect_async                                                           *)
(***************************************************************************)
\* The caller invokes connect_async(request).
ConnectAsyncCall(r) ==
    /\ pc = "idle"
    /\ entry' = "connect_async"
    /\ ca_arg' = Some(r)
    /\ pc' = "ca_convert"
    /\ UNCHANGED <<tls, env, ca_request, ca_domain, ca_port, ca_addr, ct_locals,
                   resources, result, error, trace>>
    /\ UNCHANGED <<peer, io>>

\* let request = request.into_client_request()?;
CA_Convert ==
    /\ pc = "ca_convert"
    /\ trace' = Append(trace, "convert")
    /\ LET c == into_client_request(The(ca_arg)) IN
         IF c.ok
         THEN /\ ca_request' = Some(c.val)
              /\ pc' = "ca_domain"
              /\ UNCHANGED <<resources, result, error>>
         ELSE /\ Fail(c.err)
              /\ UNCHANGED <<ca_request, hs>>
    /\ UNCHANGED <<tls, env, entry, ca_arg, ca_domain, ca_port, ca_addr, ct_locals>>
    /\ UNCHANGED <<peer, io>>

\* let domain = domain(&request)?;
CA_Domain ==
    /\ pc = "ca_domain"
    /\ trace' = Append(trace, "host")
    /\ LET d == domain(The(ca_request)) IN
         IF d.ok
         THEN /\ ca_domain' = Some(d.val)
              /\ pc' = "ca_port"
              /\ UNCHANGED <<resources, result, error>>
         ELSE /\ Fail(d.err)
              /\ UNCHANGED <<ca_domain, hs>>
    /\ UNCHANGED <<tls, env, entry, ca_arg, ca_request, ca_port, ca_addr, ct_locals>>
    /\ UNCHANGED <<peer, io>>

\* Mutant of CA_Port: the mode is resolved before the socket is opened.
CA_Port_ThenMode ==
    /\ pc = "ca_port"
    /\ trace' = Append(trace, "port")
    /\ LET p == resolve_port(The(ca_request))
           m == uri_mode(The(ca_request)) IN
         IF p.ok /\ m.ok
         THEN /\ ca_port' = Some(p.val)
              /\ pc' = "ca_connect"
              /\ UNCHANGED <<resources, result, error>>
         ELSE /\ Fail(IF p.ok THEN m.err ELSE p.err)
              /\ UNCHANGED <<ca_port, hs>>
    /\ UNCHANGED <<tls, env, entry, ca_arg, ca_request, ca_domain, ca_addr, ct_locals>>
    /\ UNCHANGED <<peer, io>>

\* Mutant of CA_Port: a build without TLS rejects wss before the socket is opened.
CA_Port_CheckTls ==
    /\ pc = "ca_port"
    /\ trace' = Append(trace, "port")
    /\ LET p == resolve_port(The(ca_request)) IN
         IF p.ok /\ (tls \/ The(ca_request).scheme # Some("wss"))
         THEN /\ ca_port' = Some(p.val)
              /\ pc' = "ca_connect"
              /\ UNCHANGED <<resources, result, error>>
         ELSE /\ Fail(IF p.ok THEN ErrNoTls ELSE p.err)
              /\ UNCHANGED <<ca_port, hs>>
    /\ UNCHANGED <<tls, env, entry, ca_arg, ca_request, ca_domain, ca_addr, ct_locals>>
    /\ UNCHANGED <<peer, io>>

\* let port = request.uri().port_u16().or_else(..).ok_or_else(..)?;
CA_Port ==
    /\ pc = "ca_port"
    /\ trace' = Append(trace, "port")
    /\ LET p == resolve_port(The(ca_request)) IN
         IF p.ok
         THEN /\ ca_port' = Some(p.val)
              /\ pc' = "ca_connect"
              /\ UNCHANGED <<resources, result, error>>
         ELSE /\ Fail(p.err)
              /\ UNCHANGED <<ca_port, hs>>
    /\ UNCHANGED <<tls, env, entry, ca_arg, ca_request, ca_domain, ca_addr, ct_locals>>
    /\ UNCHANGED <<peer, io>>

\* Mutant of CA_Connect: the address is built with the default port, not the
\* resolved one.
CA_Connect_DefaultPort ==
    /\ pc = "ca_connect"
    /\ ca_addr' = Some(<<The(ca_domain), DefaultWsPort>>)
    /\ socket' = "connecting"
    /\ trace' = Append(trace, "connect")
    /\ pc' = "ca_await_connect"
    /\ UNCHANGED <<tls, env, entry, ca_arg, ca_request, ca_domain, ca_port, ct_locals,
                   tlsSession, stream, hs, result, error>>
    /\ UNCHANGED <<peer, io>>

\* let addr = format!("{}:{}", domain, port); TcpStream::connect(addr) is polled:
\* the connection attempt is in flight and the task is suspended.
CA_Connect ==
    /\ pc = "ca_connect"
    /\ ca_addr' = Some(<<The(ca_domain), The(ca_port)>>)
    /\ socket' = "connecting"
    /\ trace' = Append(trace, "connect")
    /\ pc' = "ca_await_connect"
    /\ UNCHANGED <<tls, env, entry, ca_arg, ca_request, ca_domain, ca_port, ct_locals,
                   tlsSession, stream, hs, result, error>>
    /\ UNCHANGED <<peer, io>>

\* Mutant of CA_Connected: a failed connection is tried again.
CA_Connected_Retry ==
    /\ pc = "ca_await_connect"
    /\ IF env.connectOk
       THEN /\ socket' = "open"
            /\ pc' = "ca_call_tls"
       ELSE /\ socket' = "none"
            /\ pc' = "ca_connect"
    /\ UNCHANGED <<tls, env, entry, ca_locals, ct_locals, tlsSession, stream, hs,
                   result, error, trace>>
    /\ UNCHANGED <<peer, io>>

\* let try_socket = ...await; let socket = try_socket.map_err(Error::Io)?;
CA_Connected ==
    /\ pc = "ca_await_connect"
    /\ IF env.connectOk
       THEN /\ socket' = "open"
            /\ pc' = "ca_call_tls"
            /\ UNCHANGED <<tlsSession, stream, result, error>>
       ELSE Fail(ErrIo)
    /\ UNCHANGED <<tls, env, entry, ca_locals, ct_locals, hs, trace>>
    /\ UNCHANGED <<peer, io>>

\* client_async_tls(request, socket).await: the Request and the socket move into
\* client_async_tls, whose result is connect_async's result.
CA_CallTls ==
    /\ pc = "ca_call_tls"
    /\ ct_arg' = Some([convertible |-> TRUE, uri |-> The(ca_request)])
    /\ pc' = "ct_convert"
    /\ UNCHANGED <<tls, env, entry, ca_locals, ct_request, ct_domain, ct_mode, ws_call,
                   resources, result, error, trace>>
    /\ UNCHANGED <<peer, io>>

(***************************************************************************)
(* client_async_tls                                                        *)
(***************************************************************************)
\* The caller invokes client_async_tls(request, stream) with its own open stream.
ClientAsyncTlsCall(r) ==
    /\ pc = "idle"
    /\ entry' = "client_async_tls"
    /\ ct_arg' = Some(r)
    /\ socket' = "open"
    /\ pc' = "ct_convert"
    /\ UNCHANGED <<tls, env, ca_locals, ct_request, ct_domain, ct_mode, ws_call,
                   tlsSession, stream, hs, result, error, trace>>
    /\ UNCHANGED <<peer, io>>

\* let request = request.into_client_request()?;
CT_Convert ==
    /\ pc = "ct_convert"
    /\ trace' = Append(trace, "convert")
    /\ LET c == into_client_request(The(ct_arg)) IN
         IF c.ok
         THEN /\ ct_request' = Some(c.val)
              /\ pc' = "ct_domain"
              /\ UNCHANGED <<resources, result, error>>
         ELSE /\ Fail(c.err)
              /\ UNCHANGED <<ct_request, hs>>
    /\ UNCHANGED <<tls, env, entry, ca_locals, ct_arg, ct_domain, ct_mode, ws_call>>
    /\ UNCHANGED <<peer, io>>

\* // let domain = domain(&request)?;
\* let domain = None;
CT_Domain ==
    /\ pc = "ct_domain"
    /\ ct_domain' = None
    /\ pc' = "ct_mode"
    /\ UNCHANGED <<tls, env, entry, ca_locals, ct_arg, ct_request, ct_mode, ws_call,
                   resources, result, error, trace>>
    /\ UNCHANGED <<peer, io>>

\* Mutant of CT_Mode: a scheme that is neither ws nor wss is served as Plain.
CT_Mode_DefaultPlain ==
    /\ pc = "ct_mode"
    /\ trace' = Append(trace, "mode")
    /\ LET m == uri_mode(The(ct_request)) IN
         /\ ct_mode' = Some(IF m.ok THEN m.val ELSE "Plain")
         /\ pc' = "ct_wrap"
         /\ UNCHANGED <<resources, result, error>>
    /\ UNCHANGED <<tls, env, entry, ca_locals, ct_arg, ct_request, ct_domain, ws_call>>
    /\ UNCHANGED <<peer, io>>

\* let mode = uri_mode(&request.uri())?;
CT_Mode ==
    /\ pc = "ct_mode"
    /\ trace' = Append(trace, "mode")
    /\ LET m == uri_mode(The(ct_request)) IN
         IF m.ok
         THEN /\ ct_mode' = Some(m.val)
              /\ pc' = "ct_wrap"
              /\ UNCHANGED <<resources, result, error>>
         ELSE /\ Fail(m.err)
              /\ UNCHANGED <<ct_mode, hs>>
    /\ UNCHANGED <<tls, env, entry, ca_locals, ct_arg, ct_request, ct_domain, ws_call>>
    /\ UNCHANGED <<peer, io>>

(***************************************************************************)
(* encryption::wrap_stream, called at `wrap_stream(stream, domain, mode)`  *)
(***************************************************************************)
\* Mutant of WrapStreamTls: the match on mode is dropped, every stream is upgraded.
WrapStreamTls_AlwaysTls ==
    /\ pc = "ct_wrap"
    /\ tls
    /\ ws_call' = Some([domain |-> ct_domain, mode |-> The(ct_mode)])
    /\ trace' = Append(trace, "upgrade")
    /\ stream' = stream
    /\ pc' = "ws_build"
    /\ UNCHANGED <<tls, env, entry, ca_locals, ct_arg, ct_request, ct_domain, ct_mode,
                   socket, tlsSession, hs, result, error>>
    /\ UNCHANGED <<peer, io>>

\* #[cfg(feature = "tls")] match mode { Plain => Ok(StreamSwitcher::Plain(socket)),
\*                                      Tls => { build the connector ... } }
WrapStreamTls ==
    /\ pc = "ct_wrap"
    /\ tls
    /\ ws_call' = Some([domain |-> ct_domain, mode |-> The(ct_mode)])
    /\ trace' = Append(trace, "upgrade")
    /\ IF The(ct_mode) = "Plain"
       THEN /\ stream' = "Plain"
            /\ pc' = "ct_handshake"
       ELSE /\ stream' = stream
            /\ pc' = "ws_build"
    /\ UNCHANGED <<tls, env, entry, ca_locals, ct_arg, ct_request, ct_domain, ct_mode,
                   socket, tlsSession, hs, result, error>>
    /\ UNCHANGED <<peer, io>>

\* let connector = builder.build().map_err(Error::Tls)?;
WS_Build ==
    /\ pc = "ws_build"
    /\ IF env.builderOk
       THEN /\ pc' = "ws_connect"
            /\ UNCHANGED <<socket, tlsSession, stream, result, error>>
       ELSE Fail(ErrTls)
    /\ UNCHANGED <<tls, env, entry, ca_locals, ct_locals, hs, trace>>
    /\ UNCHANGED <<peer, io>>

\* let domain = domain.unwrap_or_else(|| "".to_string());
\* stream.connect(&domain, socket) is polled: the TLS handshake is in flight.
WS_Connect ==
    /\ pc = "ws_connect"
    /\ tlsSession' = "handshaking"
    /\ trace' = Append(trace, "tls_handshake")
    /\ pc' = "ws_await_tls"
    /\ UNCHANGED <<tls, env, entry, ca_locals, ct_locals, socket, stream, hs,
                   result, error>>
    /\ UNCHANGED <<peer, io>>

\* Mutant of WS_Connected: a failed TLS handshake falls back to the plain stream.
WS_Connected_Fallback ==
    /\ pc = "ws_await_tls"
    /\ IF tls_connect(TlsConnectorBuilder, env).ok
       THEN /\ tlsSession' = "established"
            /\ stream' = "Tls"
       ELSE /\ tlsSession' = "closed"
            /\ stream' = "Plain"
    /\ pc' = "ct_handshake"
    /\ UNCHANGED <<tls, env, entry, ca_locals, ct_locals, socket, hs, result, error, trace>>
    /\ UNCHANGED <<peer, io>>

\* match connected { Err(e) => Err(Error::Tls(e)), Ok(s) => Ok(StreamSwitcher::Tls(s)) }
WS_Connected ==
    /\ pc = "ws_await_tls"
    /\ IF tls_connect(TlsConnectorBuilder, env).ok
       THEN /\ tlsSession' = "established"
            /\ stream' = "Tls"
            /\ pc' = "ct_handshake"
            /\ UNCHANGED <<socket, result, error>>
       ELSE Fail(ErrTls)
    /\ UNCHANGED <<tls, env, entry, ca_locals, ct_locals, hs, trace>>
    /\ UNCHANGED <<peer, io>>

\* Mutant of WrapStreamNoTls: without TLS support the upgrader rejects every mode.
WrapStreamNoTls_RejectAll ==
    /\ pc = "ct_wrap"
    /\ ~tls
    /\ ws_call' = Some([domain |-> ct_domain, mode |-> The(ct_mode)])
    /\ trace' = Append(trace, "upgrade")
    /\ Fail(ErrNoTls)
    /\ UNCHANGED <<tls, env, entry, ca_locals, ct_arg, ct_request, ct_domain, ct_mode, hs>>
    /\ UNCHANGED <<peer, io>>

\* Mutant of WrapStreamNoTls: without TLS support, mode Tls is served in plaintext.
WrapStreamNoTls_Fallback ==
    /\ pc = "ct_wrap"
    /\ ~tls
    /\ ws_call' = Some([domain |-> ct_domain, mode |-> The(ct_mode)])
    /\ trace' = Append(trace, "upgrade")
    /\ stream' = "Plain"
    /\ pc' = "ct_handshake"
    /\ UNCHANGED <<tls, env, entry, ca_locals, ct_arg, ct_request, ct_domain, ct_mode,
                   socket, tlsSession, hs, result, error>>
    /\ UNCHANGED <<peer, io>>

\* #[cfg(not(feature = "tls"))] match mode { Plain => Ok(socket),
\*     Tls => Err(Error::Url("TLS support not compiled in.")) }
\* AutoStream<S> = S: the stream returned is the socket itself.
WrapStreamNoTls ==
    /\ pc = "ct_wrap"
    /\ ~tls
    /\ ws_call' = Some([domain |-> ct_domain, mode |-> The(ct_mode)])
    /\ trace' = Append(trace, "upgrade")
    /\ IF The(ct_mode) = "Plain"
       THEN /\ stream' = "Plain"
            /\ pc' = "ct_handshake"
            /\ UNCHANGED <<socket, tlsSession, result, error>>
       ELSE Fail(ErrNoTls)
    /\ UNCHANGED <<tls, env, entry, ca_locals, ct_arg, ct_request, ct_domain, ct_mode, hs>>
    /\ UNCHANGED <<peer, io>>

(***************************************************************************)
(* client_async(request, stream).await                                     *)
(***************************************************************************)
\* client_async is called: the stream moves into the handshake, which is in flight.
CT_Handshake ==
    /\ pc = "ct_handshake"
    /\ hs' = "running"
    /\ trace' = Append(trace, "handshake")
    /\ pc' = "ct_await_handshake"
    /\ UNCHANGED <<tls, env, entry, ca_locals, ct_locals, socket, tlsSession, stream,
                   result, error>>
    /\ UNCHANGED <<peer, io>>

\* Mutant of CT_Handshaken: a failed handshake is never reported, the task stays suspended.
CT_Handshaken_OkOnly ==
    /\ pc = "ct_await_handshake"
    /\ env.handshakeOk
    /\ hs' = "done"
    /\ result' = "Ok"
    /\ pc' = "done"
    /\ UNCHANGED <<tls, env, entry, ca_locals, ct_locals, socket, tlsSession, stream,
                   error, trace>>
    /\ UNCHANGED <<peer, io>>

\* The handshake answers: Ok((WebSocketStream, Response)) owning the stream, or Err.
CT_Handshaken ==
    /\ pc = "ct_await_handshake"
    /\ IF env.handshakeOk
       THEN /\ hs' = "done"
            /\ result' = "Ok"
            /\ pc' = "done"
            /\ UNCHANGED <<socket, tlsSession, stream, error>>
       ELSE /\ hs' = "failed"
            /\ Fail(ErrHandshake)
    /\ UNCHANGED <<tls, env, entry, ca_locals, ct_locals, trace>>
    /\ UNCHANGED <<peer, io>>

(***************************************************************************)
(* Cancellation: the caller drops the future while it is suspended         *)
(***************************************************************************)
SuspensionPoints == {"ca_await_connect", "ws_await_tls", "ct_await_handshake"}

\* Mutant of Abandon: the in-flight socket and session outlive the dropped future.
Abandon_Leak ==
    /\ pc \in SuspensionPoints
    /\ pc' = "dropped"
    /\ UNCHANGED <<tls, env, entry, ca_locals, ct_locals, resources, result, error, trace>>
    /\ UNCHANGED <<peer, io>>

\* Mutant of Abandon: dropping one future cancels every attempt in flight.
Abandon_All ==
    /\ pc \in SuspensionPoints
    /\ pc' = "dropped"
    /\ socket' = Release(socket)
    /\ tlsSession' = Release(tlsSession)
    /\ stream' = "none"
    /\ hs' = IF hs = "running" THEN "dropped" ELSE hs
    /\ peer' = IF peer.pc \in SuspensionPoints
               THEN [peer EXCEPT !.pc = "dropped",
                                 !.socket = Release(@),
                                 !.tlsSession = Release(@),
                                 !.stream = "none",
                                 !.hs = IF @ = "running" THEN "dropped" ELSE @]
               ELSE peer
    /\ UNCHANGED <<tls, env, entry, ca_locals, ct_locals, result, error, trace, io>>

Abandon ==
    /\ pc \in SuspensionPoints
    /\ pc' = "dropped"
    /\ socket' = Release(socket)
    /\ tlsSession' = Release(tlsSession)
    /\ stream' = "none"
    /\ hs' = IF hs = "running" THEN "dropped" ELSE hs
    /\ UNCHANGED <<tls, env, entry, ca_locals, ct_locals, result, error, trace>>
    /\ UNCHANGED <<peer, io>>

Next ==
    \/ \E r \in IntoClientRequest : ConnectAsyncCall(r)
    \/ CA_Convert
    \/ CA_Domain
    \/ CA_Port
    \/ CA_Connect
    \/ CA_Connected
    \/ CA_CallTls
    \/ \E r \in IntoClientRequest : ClientAsyncTlsCall(r)
    \/ CT_Convert
    \/ CT_Domain
    \/ CT_Mode
    \/ WrapStreamTls
    \/ WS_Build
    \/ WS_Connect
    \/ WS_Connected
    \/ WrapStreamNoTls
    \/ CT_Handshake
    \/ CT_Handshaken
    \/ Abandon

Spec == Init /\ [][Next]_vars

\* The steps of the task itself: every action but the caller's calls and the
\* caller's dropping of the future.
Steps ==
    \/ CA_Convert \/ CA_Domain \/ CA_Port \/ CA_Connect \/ CA_Connected \/ CA_CallTls
    \/ CT_Convert \/ CT_Domain \/ CT_Mode
    \/ WrapStreamTls \/ WS_Build \/ WS_Connect \/ WS_Connected \/ WrapStreamNoTls
    \/ CT_Handshake \/ CT_Handshaken

\* The executor keeps polling a task that can make progress, and every
\* collaborator eventually answers.
FairSpec == Spec /\ WF_vars(Steps)

(***************************************************************************)
(* Two concurrent attempts                                                 *)
(*                                                                         *)
(* Every variable of an attempt is a local of its own future: the functions *)
(* use no static and no shared value. A second attempt is kept in `peer`;   *)
(* the executor may switch between the two tasks at any step.               *)
(***************************************************************************)
\* The attempt the executor is running.
Me ==
    [env |-> env, entry |-> entry, pc |-> pc,
     ca_arg |-> ca_arg, ca_request |-> ca_request, ca_domain |-> ca_domain,
     ca_port |-> ca_port, ca_addr |-> ca_addr, ct_arg |-> ct_arg,
     ct_request |-> ct_request, ct_domain |-> ct_domain, ct_mode |-> ct_mode,
     ws_call |-> ws_call,
     socket |-> socket, tlsSession |-> tlsSession, stream |-> stream, hs |-> hs,
     result |-> result, error |-> error, trace |-> trace]

\* The executor runs the other task.
Switch ==
    /\ peer' = Me
    /\ env' = peer.env /\ entry' = peer.entry /\ pc' = peer.pc
    /\ ca_arg' = peer.ca_arg /\ ca_request' = peer.ca_request
    /\ ca_domain' = peer.ca_domain /\ ca_port' = peer.ca_port /\ ca_addr' = peer.ca_addr
    /\ ct_arg' = peer.ct_arg /\ ct_request' = peer.ct_request
    /\ ct_domain' = peer.ct_domain /\ ct_mode' = peer.ct_mode /\ ws_call' = peer.ws_call
    /\ socket' = peer.socket /\ tlsSession' = peer.tlsSession
    /\ stream' = peer.stream /\ hs' = peer.hs
    /\ result' = peer.result /\ error' = peer.error /\ trace' = peer.trace
    /\ UNCHANGED <<tls, io>>

\* The requests and the collaborator answers of the two attempts.
ConcRequests ==
    {[convertible |-> TRUE, uri |-> [scheme |-> Some("wss"), host |-> Some(1), port |-> None]],
     [convertible |-> TRUE, uri |-> [scheme |-> Some("ws"), host |-> Some(NumHosts), port |-> Some(8080)]]}

ConcEnv ==
    {e \in Env : e.builderOk /\ e.tlsOk /\ e.certTrusted /\ e.certMatchesHost}

ConcInit ==
    /\ tls \in BOOLEAN
    /\ env \in ConcEnv
    /\ entry = "none"
    /\ pc = "idle"
    /\ ca_arg = None /\ ca_request = None /\ ca_domain = None
    /\ ca_port = None /\ ca_addr = None
    /\ ct_arg = None /\ ct_request = None /\ ct_domain = None
    /\ ct_mode = None /\ ws_call = None
    /\ socket = "none" /\ tlsSession = "none" /\ stream = "none" /\ hs = "none"
    /\ result = "pending"
    /\ error = None
    /\ trace = <<>>
    /\ peer \in {IdleAttempt(e) : e \in ConcEnv}
    /\ io = IoIdle

ConcNext ==
    \/ \E r \in ConcRequests : ConnectAsyncCall(r)
    \/ \E r \in ConcRequests : ClientAsyncTlsCall(r)
    \/ Steps
    \/ Abandon
    \/ Switch

ConcSpec == ConcInit /\ [][ConcNext]_vars

(***************************************************************************)
(* The stream the upgrader returns                                         *)
(*                                                                         *)
(* AutoStream<S> is StreamSwitcher<S, TlsStream<S>> in the tls build and S  *)
(* itself in the other. The same operations are applied to a stream S used  *)
(* directly (io.direct) and to an equal stream behind AutoStream (io.inner).*)
(***************************************************************************)
MaxOps == 3
MaxRx == 2
Bytes == {0, 1}

RECURSIVE SeqsUpTo(_)
SeqsUpTo(n) ==
    IF n = 0 THEN {<<>>}
    ELSE LET shorter == SeqsUpTo(n - 1)
         IN shorter \cup {Append(q, b) : q \in {x \in shorter : Len(x) = n - 1}, b \in Bytes}

Min(a, b) == IF a < b THEN a ELSE b

StreamOps ==
    [kind : {"read"}, arg : 1..MaxRx] \cup [kind : {"write"}, arg : Bytes]
        \cup [kind : {"flush", "shutdown"}, arg : {0}]

\* AsyncRead / AsyncWrite of a stream S: the new state of S and the result.
StreamOp(op, s) ==
    CASE op.kind = "read" ->
           LET k == Min(op.arg, Len(s.rx))
           IN [s |-> [s EXCEPT !.rx = SubSeq(@, k + 1, Len(@))],
               res |-> IoResult("read", TRUE, SubSeq(s.rx, 1, k))]
      [] op.kind = "write" ->
           IF s.shut
           THEN [s |-> s, res |-> IoResult("write", FALSE, <<>>)]
           ELSE [s |-> [s EXCEPT !.tx = Append(@, op.arg)],
                 res |-> IoResult("write", TRUE, <<op.arg>>)]
      [] op.kind = "flush" ->
           [s |-> [s EXCEPT !.flushed = Len(s.tx)], res |-> IoResult("flush", TRUE, <<>>)]
      [] op.kind = "shutdown" ->
           [s |-> [s EXCEPT !.shut = TRUE], res |-> IoResult("shutdown", TRUE, <<>>)]

\* What a TLS session makes of a byte on the wire.
Cipher(b) == 1 - b

\* StreamSwitcher<S, T>: the Plain variant hands each operation to S; the Tls
\* variant hands it to the TLS session, which reads and writes S in cipher.
StreamSwitcherOp(variant, op, s) ==
    IF variant = "Plain" THEN StreamOp(op, s)
    ELSE CASE op.kind = "read" ->
                LET r == StreamOp(op, s)
                IN [s |-> r.s,
                    res |-> IoResult("read", TRUE,
                                     [i \in 1..Len(r.res.bytes) |-> Cipher(r.res.bytes[i])])]
           [] op.kind = "write" ->
                LET r == StreamOp([op EXCEPT !.arg = Cipher(@)], s)
                IN [s |-> r.s,
                    res |-> IoResult("write", r.res.ok, IF r.res.ok THEN <<op.arg>> ELSE <<>>)]
           [] OTHER -> StreamOp(op, s)

\* Mutant of AutoStreamOp: every stream is treated as a TLS session.
AutoStreamOp_AlwaysTls(t, variant, op, s) == StreamSwitcherOp("Tls", op, s)

\* An operation on AutoStream<S> in the build t.
AutoStreamOp(t, variant, op, s) ==
    IF t THEN StreamSwitcherOp(variant, op, s) ELSE StreamOp(op, s)

\* A stream S with some bytes to read, and an equal one behind AutoStream.
IoInit ==
    /\ tls \in BOOLEAN
    /\ env \in {e \in Env : \A f \in DOMAIN e : e[f]}
    /\ entry = "none"
    /\ pc = "idle"
    /\ ca_arg = None /\ ca_request = None /\ ca_domain = None
    /\ ca_port = None /\ ca_addr = None
    /\ ct_arg = None /\ ct_request = None /\ ct_domain = None
    /\ ct_mode = None /\ ws_call = None
    /\ socket = "none" /\ tlsSession = "none" /\ stream = "none" /\ hs = "none"
    /\ result = "pending"
    /\ error = None
    /\ trace = <<>>
    /\ peer = IdleAttempt(env)
    /\ \E rx \in SeqsUpTo(MaxRx), v \in {"Plain", "Tls"} :
          /\ v = "Tls" => tls
          /\ io = [IoIdle EXCEPT !.direct = NewStream(rx), !.inner = NewStream(rx),
                                 !.variant = v]

IoStep(op) ==
    /\ io.n < MaxOps
    /\ LET d == StreamOp(op, io.direct)
           w == AutoStreamOp(tls, io.variant, op, io.inner)
       IN io' = [io EXCEPT !.n = @ + 1,
                           !.direct = d.s, !.resDirect = d.res,
                           !.inner = w.s, !.resSwitch = w.res]
    /\ UNCHANGED <<tls, env, entry, pc, ca_locals, ct_locals, resources,
                   result, error, trace, peer>>

IoRead == \E op \in {o \in StreamOps : o.kind = "read"} : IoStep(op)
IoWrite == \E op \in {o \in StreamOps : o.kind = "write"} : IoStep(op)
IoFlush == \E op \in {o \in StreamOps : o.kind = "flush"} : IoStep(op)
IoShutdown == \E op \in {o \in StreamOps : o.kind = "shutdown"} : IoStep(op)

IoNext == IoRead \/ IoWrite \/ IoFlush \/ IoShutdown

IoSpec == IoInit /\ [][IoNext]_vars

(***************************************************************************)
(* Vocabulary of the properties                                            *)
(***************************************************************************)
Stages == {trace[i] : i \in DOMAIN trace}

\* The error kinds of the specification, by the Error the code returns.
Kind(e) ==
    CASE e.variant = "Request" -> "InvalidRequest"
      [] e = ErrNoHost -> "InvalidUrl"
      [] e \in {ErrPortScheme, ErrModeScheme, ErrNoTls} -> "UnsupportedScheme"
      [] e.variant = "Io" -> "ConnectionError"
      [] e.variant = "Tls" -> "TlsError"
      [] e.variant = "Handshake" -> "HandshakeError"

WsSchemes == {Some("ws"), Some("wss")}

\* The attempt is a connect_async call on a value that converts to a Request.
ConnectAsyncOn(u) ==
    /\ entry = "connect_async"
    /\ The(ca_arg).convertible
    /\ The(ca_arg).uri = u

\* The attempt is a client_async_tls call on a value that converts to a Request.
ClientAsyncTlsOn(u) ==
    /\ entry = "client_async_tls"
    /\ The(ct_arg).convertible
    /\ The(ct_arg).uri = u

(***************************************************************************)
(* C1                                                                      *)
(***************************************************************************)
\* C1 (as claimed): in a build without TLS support, a connect_async call on a
\* wss request (with a host) fails with "TLS support not compiled in" and no
\* socket connection is ever attempted or opened.
C1_NoTlsWssNoIo ==
    \A u \in Request :
        (~tls /\ ConnectAsyncOn(u) /\ u.scheme = Some("wss") /\ u.host # None) =>
            /\ socket = "none"
            /\ "connect" \notin Stages
            /\ (pc = "done" => error = Some(ErrNoTls))

\* C1 (amended): in a build without TLS support, a connect_async call on a wss
\* request with a host never succeeds and never starts a TLS or protocol
\* handshake; it ends with ConnectionError when the socket cannot be opened, and
\* otherwise with "TLS support not compiled in", raised by the upgrader after
\* the socket was opened, the socket being released.
C1_NoTlsWssFailsAfterConnect ==
    \A u \in Request :
        (~tls /\ ConnectAsyncOn(u) /\ u.scheme = Some("wss") /\ u.host # None) =>
            /\ result # "Ok"
            /\ tlsSession = "none"
            /\ hs = "none"
            /\ (pc = "done" =>
                    error = Some(IF env.connectOk THEN ErrNoTls ELSE ErrIo))
            /\ (error = Some(ErrNoTls) => "connect" \in Stages /\ socket = "closed")

C1_Witness ==
    /\ ~tls
    /\ entry = "connect_async"
    /\ ca_request # None
    /\ The(ca_request).scheme = Some("wss")
    /\ pc = "done"
    /\ error = Some(ErrNoTls)
    /\ socket = "closed"

(***************************************************************************)
(* C2                                                                      *)
(***************************************************************************)
\* C2 (as claimed): a connect_async call on a request (with a host) whose scheme
\* is neither ws nor wss, with or without an explicit port, fails with
\* UnsupportedScheme and no socket is ever opened.
C2_OtherSchemeNoSocket ==
    \A u \in Request :
        (ConnectAsyncOn(u) /\ u.scheme = Some("ftp") /\ u.host # None) =>
            /\ socket = "none"
            /\ "connect" \notin Stages
            /\ (pc = "done" => Kind(The(error)) = "UnsupportedScheme")

\* C2 (amended): a connect_async call on a request with a host whose scheme is
\* neither ws nor wss never succeeds and never reaches the upgrader or the
\* handshake. Without an explicit port it fails with UnsupportedScheme at port
\* resolution and no socket is opened. With an explicit port the socket is
\* opened first: the attempt ends with ConnectionError if that fails, and
\* otherwise with UnsupportedScheme from mode resolution, the socket released.
C2_OtherSchemeFails ==
    \A u \in Request :
        (ConnectAsyncOn(u) /\ u.scheme \notin WsSchemes /\ u.host # None) =>
            /\ result # "Ok"
            /\ ws_call = None
            /\ hs = "none"
            /\ (u.port = None =>
                    /\ socket = "none"
                    /\ "connect" \notin Stages
                    /\ (pc = "done" => error = Some(ErrPortScheme)))
            /\ (u.port # None /\ pc = "done" =>
                    /\ socket = "closed"
                    /\ error = Some(IF env.connectOk THEN ErrModeScheme ELSE ErrIo))

C2_Witness ==
    /\ entry = "connect_async"
    /\ ca_request # None
    /\ The(ca_request).scheme = Some("ftp")
    /\ The(ca_request).port # None
    /\ pc = "done"
    /\ error = Some(ErrModeScheme)
    /\ socket = "closed"

(***************************************************************************)
(* C3                                                                      *)
(***************************************************************************)
\* Whether a stage fails for an input r, the collaborators' answers e and the
\* build t, were the stage to be run.
FailsAt(stage, r, e, t) ==
    CASE stage = "convert" -> ~r.convertible
      [] stage = "mode" -> r.uri.scheme \notin WsSchemes
      [] stage = "host" -> r.uri.host = None
      [] stage = "port" -> r.uri.port = None /\ r.uri.scheme \notin WsSchemes
      [] stage = "connect" -> ~e.connectOk
      [] stage = "upgrade" ->
            r.uri.scheme = Some("wss")
            /\ (~t \/ ~e.builderOk \/ ~tls_connect(TlsConnectorBuilder, e).ok)
      [] stage = "handshake" -> ~e.handshakeOk

FailingIn(order, r, e, t) ==
    {i \in DOMAIN order : FailsAt(order[i], r, e, t)}

\* The first stage of `order` that fails, or "none".
FirstFailing(order, r, e, t) ==
    LET F == FailingIn(order, r, e, t) IN
    IF F = {} THEN "none"
    ELSE order[CHOOSE i \in F : \A j \in F : i <= j]

\* The order of the specification's steps 1-6.
ClaimedOrder == <<"convert", "mode", "host", "port", "connect", "upgrade", "handshake">>

\* The order of the statements of connect_async and client_async_tls.
CodeOrder == <<"convert", "host", "port", "connect", "mode", "upgrade", "handshake">>

\* The error kinds a stage of the specification reports.
KindsOf(stage) ==
    CASE stage = "convert" -> {"InvalidRequest"}
      [] stage = "mode" -> {"InvalidUrl", "UnsupportedScheme"}
      [] stage = "host" -> {"InvalidUrl"}
      [] stage = "port" -> {"UnsupportedScheme"}
      [] stage = "connect" -> {"ConnectionError"}
      [] stage = "upgrade" -> {"TlsError", "UnsupportedScheme"}
      [] stage = "handshake" -> {"HandshakeError"}
      [] OTHER -> {}

\* The stage an Error of the code comes from.
StageOf(e) ==
    CASE e = ErrRequest -> "convert"
      [] e = ErrNoHost -> "host"
      [] e = ErrPortScheme -> "port"
      [] e = ErrIo -> "connect"
      [] e = ErrModeScheme -> "mode"
      [] e \in {ErrNoTls, ErrTls} -> "upgrade"
      [] e = ErrHandshake -> "handshake"

\* C3 (as claimed): a failing connect_async attempt returns exactly one error,
\* that of the first stage that fails for the input in the order request
\* conversion, mode resolution, host/port resolution, socket connection, TLS
\* upgrade, protocol handshake.
C3_FirstFailureClaimedOrder ==
    (entry = "connect_async" /\ pc = "done" /\ result = "Err") =>
        /\ Cardinality(error) = 1
        /\ Kind(The(error)) \in KindsOf(FirstFailing(ClaimedOrder, The(ca_arg), env, tls))

\* C3 (amended): a finished connect_async attempt fails exactly when some stage
\* fails for the input, and then returns exactly one error, that of the first
\* failing stage in the order request conversion, host resolution, port
\* resolution, socket connection, mode resolution, TLS upgrade, protocol
\* handshake.
C3_FirstFailureCodeOrder ==
    (entry = "connect_async" /\ pc = "done") =>
        LET first == FirstFailing(CodeOrder, The(ca_arg), env, tls) IN
        /\ (result = "Ok") = (first = "none")
        /\ result = "Ok" => error = None
        /\ result = "Err" =>
              /\ Cardinality(error) = 1
              /\ StageOf(The(error)) = first
              /\ Kind(The(error)) \in KindsOf(first)

C3_Witness ==
    /\ entry = "connect_async"
    /\ pc = "done"
    /\ The(ca_arg).uri.scheme \notin WsSchemes
    /\ The(ca_arg).uri.port # None
    /\ ~env.connectOk
    /\ error = Some(ErrIo)

(***************************************************************************)
(* C4                                                                      *)
(***************************************************************************)
\* C4: in a build with TLS support, a successful attempt for a wss URL holds the
\* Tls variant over an established session, a successful attempt for a ws URL
\* holds the Plain variant, and an attempt whose TLS handshake failed has ended
\* with TlsError, with no Plain stream and no protocol handshake started.
C4_NoPlaintextFallback ==
    tls =>
        /\ (result = "Ok" /\ The(ct_request).scheme = Some("wss")) =>
              (stream = "Tls" /\ tlsSession = "established")
        /\ (result = "Ok" /\ The(ct_request).scheme = Some("ws")) =>
              (stream = "Plain" /\ tlsSession = "none")
        /\ ("tls_handshake" \in Stages /\ ~tls_connect(TlsConnectorBuilder, env).ok
                /\ pc \notin {"ws_await_tls", "dropped"}) =>
              /\ pc = "done"
              /\ error = Some(ErrTls)
              /\ stream # "Plain"
              /\ hs = "none"
              /\ "handshake" \notin Stages

C4_Witness ==
    /\ tls
    /\ "tls_handshake" \in Stages
    /\ ~tls_connect(TlsConnectorBuilder, env).ok
    /\ pc = "done"
    /\ error = Some(ErrTls)
    /\ tlsSession = "closed"

(***************************************************************************)
(* C5                                                                      *)
(***************************************************************************)
\* C5: when connect_async or client_async_tls has returned, either it returned
\* Ok with a live connection (open socket, a stream variant, a finished
\* handshake with its response) and no error, or it returned one error and no
\* socket, TLS session or stream of the attempt is open or in the caller's hands.
C5_AllOrNothing ==
    pc = "done" =>
        \/ /\ result = "Ok"
           /\ error = None
           /\ socket = "open"
           /\ stream \in {"Plain", "Tls"}
           /\ (stream = "Tls") = (tlsSession = "established")
           /\ (stream = "Plain") = (tlsSession = "none")
           /\ hs = "done"
        \/ /\ result = "Err"
           /\ Cardinality(error) = 1
           /\ socket \in {"none", "closed"}
           /\ tlsSession \in {"none", "closed"}
           /\ stream = "none"
           /\ hs \in {"none", "failed"}

C5_Witness ==
    /\ pc = "done"
    /\ result = "Err"
    /\ error = Some(ErrHandshake)
    /\ socket = "closed"
    /\ tlsSession = "closed"

(***************************************************************************)
(* C6                                                                      *)
(***************************************************************************)
\* C6: once the caller has dropped the attempt at a suspension point, the socket
\* and the TLS session built so far are closed, nothing was delivered to the
\* caller, and no step of the attempt can run any more.
C6_AbandonReleases ==
    pc = "dropped" =>
        /\ socket = "closed"
        /\ tlsSession \in {"none", "closed"}
        /\ stream = "none"
        /\ hs \in {"none", "dropped"}
        /\ result = "pending"
        /\ error = None
        /\ ~ENABLED Next

C6_Witness ==
    /\ pc = "dropped"
    /\ "tls_handshake" \in Stages
    /\ "handshake" \notin Stages
    /\ socket = "closed"
    /\ tlsSession = "closed"

(***************************************************************************)
(* C7                                                                      *)
(***************************************************************************)
\* C7: for a connect_async call on a request with a host, the socket is opened
\* to that host and to the explicit port when the URL has one, whatever the
\* scheme, and otherwise to 80 for ws and 443 for wss; without an explicit port
\* and with another scheme the attempt fails with "Url scheme not supported"
\* and no socket is opened.
C7_PortResolution ==
    \A u \in Request :
        (ConnectAsyncOn(u) /\ u.host # None) =>
            LET resolvable == u.port # None \/ u.scheme \in WsSchemes
                expected ==
                    CASE u.port # None -> The(u.port)
                      [] u.port = None /\ u.scheme = Some("ws") -> DefaultWsPort
                      [] u.port = None /\ u.scheme = Some("wss") -> DefaultWssPort
            IN
            /\ (resolvable /\ pc \notin {"ca_convert", "ca_domain", "ca_port", "ca_connect"}) =>
                  /\ "connect" \in Stages
                  /\ socket # "none"
                  /\ ca_addr = Some(<<The(u.host), expected>>)
            /\ ~resolvable =>
                  /\ socket = "none"
                  /\ ca_addr = None
                  /\ "connect" \notin Stages
                  /\ (pc = "done" => error = Some(ErrPortScheme))
                  /\ pc \in {"ca_convert", "ca_domain", "ca_port", "done"}

C7_Witness ==
    /\ entry = "connect_async"
    /\ ca_request # None
    /\ The(ca_request).scheme = Some("ws")
    /\ The(ca_request).port = Some(DefaultWssPort)
    /\ The(ca_request).host # None
    /\ ca_addr = Some(<<The(The(ca_request).host), DefaultWssPort>>)
    /\ socket = "open"

(***************************************************************************)
(* C8                                                                      *)
(***************************************************************************)
\* C8: a connect_async call on a request whose URL has no host fails with
\* "no host name in the url"; the port is never resolved and no socket is
\* opened.
C8_NoHostInvalidUrl ==
    \A u \in Request :
        (ConnectAsyncOn(u) /\ u.host = None) =>
            /\ pc \in {"ca_convert", "ca_domain", "done"}
            /\ (pc = "done" => result = "Err" /\ error = Some(ErrNoHost))
            /\ "port" \notin Stages
            /\ ca_port = None
            /\ ca_addr = None
            /\ socket = "none"
            /\ "connect" \notin Stages

C8_Witness ==
    /\ entry = "connect_async"
    /\ ca_request # None
    /\ The(ca_request) = [scheme |-> None, host |-> None, port |-> None]
    /\ pc = "done"
    /\ error = Some(ErrNoHost)
    /\ Kind(The(error)) = "InvalidUrl"

(***************************************************************************)
(* C9                                                                      *)
(***************************************************************************)
\* C9 (as claimed): a client_async_tls call on a request whose URL has no host
\* fails with a URL error (Error::Url) from the Mode Resolver, and the TLS
\* upgrader is never invoked.
C9_ClientNoHostInvalidUrl ==
    \A u \in Request :
        (ClientAsyncTlsOn(u) /\ u.host = None) =>
            /\ ws_call = None
            /\ "upgrade" \notin Stages
            /\ (pc = "done" => result = "Err" /\ The(error).variant = "Url")

(***************************************************************************)
(* C10                                                                     *)
(***************************************************************************)
\* C10: in either build, a connect_async call on a ws or wss request with a host
\* whose socket connection fails ends with Error::Io, and neither the TLS
\* upgrader nor the handshake collaborator is invoked.
C10_ConnectFailure ==
    \A u \in Request :
        (ConnectAsyncOn(u) /\ u.scheme \in WsSchemes /\ u.host # None /\ ~env.connectOk) =>
            /\ result # "Ok"
            /\ (pc = "done" => result = "Err" /\ error = Some(ErrIo))
            /\ pc \in {"ca_convert", "ca_domain", "ca_port", "ca_connect",
                       "ca_await_connect", "done", "dropped"}
            /\ ws_call = None
            /\ "upgrade" \notin Stages
            /\ tlsSession = "none"
            /\ hs = "none"
            /\ "handshake" \notin Stages

C10_Witness ==
    /\ ~tls
    /\ entry = "connect_async"
    /\ ca_request # None
    /\ The(ca_request).scheme = Some("wss")
    /\ ~env.connectOk
    /\ pc = "done"
    /\ error = Some(ErrIo)
    /\ socket = "closed"

(***************************************************************************)
(* C11                                                                     *)
(***************************************************************************)
\* The same server with a certificate that is trusted and names the host.
WithGoodCertificate(e) ==
    [e EXCEPT !.certTrusted = TRUE, !.certMatchesHost = TRUE]

\* C11 (as claimed): the outcome of the TLS upgrade does not depend on whether
\* the server certificate is trusted or names the host: once the TLS handshake
\* has answered, it has succeeded exactly when it succeeds against the same
\* server presenting a trusted certificate that names the host.
C11_CertificateIgnored ==
    ("tls_handshake" \in Stages /\ pc \notin {"ws_await_tls", "dropped"}
        /\ The(ct_request).host # None) =>
        (tlsSession = "closed" /\ error = Some(ErrTls))
            = ~tls_connect(TlsConnectorBuilder, WithGoodCertificate(env)).ok

(***************************************************************************)
(* C12                                                                     *)
(***************************************************************************)
\* C12: in both builds, the step that calls wrap_stream with mode Plain always
\* succeeds, hands back the very stream it was given as the Plain variant
\* (the socket stays open and untouched) and starts no TLS session, no handshake
\* and no other use of the stream.
C12_PlainUpgradeIsIdentity ==
    [][(pc = "ct_wrap" /\ ct_mode = Some("Plain")) =>
          /\ pc' = "ct_handshake"
          /\ stream' = "Plain"
          /\ socket = "open" /\ socket' = socket
          /\ tlsSession' = "none"
          /\ hs' = "none"
          /\ result' = "pending" /\ error' = None
          /\ trace' = Append(trace, "upgrade")]_vars

C12_Witness ==
    /\ tls
    /\ pc = "ct_handshake"
    /\ ws_call # None
    /\ The(ws_call).mode = "Plain"
    /\ stream = "Plain"
    /\ socket = "open"
    /\ tlsSession = "none"

(***************************************************************************)
(* C13                                                                     *)
(***************************************************************************)
\* The stage of the specification's state machine a step belongs to.
StageRank(s) ==
    CASE s = "convert" -> 1
      [] s \in {"host", "port", "mode"} -> 2
      [] s = "connect" -> 3
      [] s \in {"upgrade", "tls_handshake"} -> 4
      [] s = "handshake" -> 5

Count(s) == Cardinality({i \in DOMAIN trace : trace[i] = s})

AtMostOnce ==
    /\ Count("connect") <= 1
    /\ Count("tls_handshake") <= 1
    /\ Count("handshake") <= 1

\* C13 (as claimed): the stage only moves forward through validate, resolve,
\* connect, upgrade, handshake (the repeated conversion of the already
\* converted Request left aside), and the socket connection, the TLS handshake
\* and the protocol handshake are each attempted at most once.
C13_StagesForward ==
    /\ \A i, j \in DOMAIN trace :
          (i < j /\ trace[j] # "convert") => StageRank(trace[i]) <= StageRank(trace[j])
    /\ AtMostOnce

IsPrefix(a, b) ==
    /\ Len(a) <= Len(b)
    /\ \A i \in DOMAIN a : a[i] = b[i]

\* The statements of the entry point, in program order, up to the upgrade.
CodeStages(e) ==
    IF e = "connect_async"
    THEN <<"convert", "host", "port", "connect", "convert", "mode", "upgrade">>
    ELSE <<"convert", "mode", "upgrade">>

\* C13 (amended): the pipeline is linear and without retry, in the order of the
\* code: connect_async runs conversion, host resolution, port resolution,
\* socket connection, then (inside client_async_tls) conversion again, mode
\* resolution, upgrade, TLS handshake if any, protocol handshake;
\* client_async_tls alone runs conversion, mode resolution, upgrade, TLS
\* handshake if any, protocol handshake. The steps run are always a prefix of
\* that sequence, and the socket connection, the TLS handshake and the protocol
\* handshake are each attempted at most once.
C13_LinearCodeOrder ==
    /\ entry = "none" => trace = <<>>
    /\ entry # "none" =>
          \E tail \in {<<"handshake">>, <<"tls_handshake", "handshake">>} :
              IsPrefix(trace, CodeStages(entry) \o tail)
    /\ AtMostOnce

C13_Witness ==
    /\ entry = "connect_async"
    /\ pc = "done"
    /\ result = "Ok"
    /\ trace = CodeStages(entry) \o <<"tls_handshake", "handshake">>

(***************************************************************************)
(* C14                                                                     *)
(***************************************************************************)
\* The step a failure was raised in; the TLS handshake is part of the upgrade.
LastStep == IF trace[Len(trace)] = "tls_handshake" THEN "upgrade" ELSE trace[Len(trace)]

\* C14: provided the task is polled and every collaborator eventually answers,
\* an attempt that was started eventually ends (returned, or dropped by the
\* caller); an attempt that returned holds either success or an error; and the
\* stage that failed is the last one that was executed.
C14_Terminates ==
    /\ (pc # "idle") ~> (pc \in {"done", "dropped"})
    /\ [](pc = "done" => result \in {"Ok", "Err"})
    /\ [](pc = "done" /\ result = "Err" =>
            /\ trace # <<>>
            /\ StageOf(The(error)) = LastStep)

C14_Witness ==
    /\ pc = "done"
    /\ result = "Err"
    /\ error = Some(ErrHandshake)
    /\ env.connectOk
    /\ trace = CodeStages("connect_async") \o <<"tls_handshake", "handshake">>

(***************************************************************************)
(* C15                                                                     *)
(***************************************************************************)
\* The statements of the entry point that can fail, in program order.
OrderOf(e) ==
    IF e = "connect_async" THEN CodeOrder ELSE <<"convert", "mode", "upgrade", "handshake">>

\* The outcome of a finished attempt a is the one its own request and its own
\* collaborators' answers determine.
OwnOutcome(a) ==
    a.pc = "done" =>
        LET arg == IF a.entry = "connect_async" THEN The(a.ca_arg) ELSE The(a.ct_arg)
            first == FirstFailing(OrderOf(a.entry), arg, a.env, tls)
        IN
        /\ (a.result = "Ok") = (first = "none")
        /\ a.result = "Ok" => (a.socket = "open" /\ a.error = None)
        /\ a.result = "Err" =>
              /\ Cardinality(a.error) = 1
              /\ StageOf(The(a.error)) = first
              /\ a.socket = "closed"

\* C15: under every interleaving of two attempts, a step of one attempt changes
\* nothing of the other (its socket, its TLS session, its position, its
\* result): the only step that touches the other attempt is the executor's
\* switch, which exchanges the two unchanged; and the outcome of each attempt
\* is the one determined by its own request and its own collaborators.
C15_Independent ==
    /\ [][peer' = peer \/ (peer' = Me /\ Me' = peer)]_vars
    /\ [](OwnOutcome(Me) /\ OwnOutcome(peer))

C15_Witness ==
    /\ pc = "done"
    /\ result = "Ok"
    /\ stream = "Tls"
    /\ socket = "open"
    /\ peer.pc = "dropped"
    /\ peer.socket = "closed"
    /\ peer.tlsSession = "closed"

C17_HostPassedThrough ==
    (ws_call # None /\ The(ct_request).host # None) =>
        The(ws_call).domain = The(ct_request).host

(***************************************************************************)
(* C18                                                                     *)
(***************************************************************************)
\* C18: in connect_async, whenever a socket connection has been attempted (a
\* socket exists, an address was built), the request conversion succeeded, the
\* URL has a host, a port was resolved (the explicit one, else 80 for ws and
\* 443 for wss), and the one address the connection was attempted to is that
\* host with that port.
C18_ConnectOnlyWhenResolved ==
    (entry = "connect_async" /\ (socket # "none" \/ ca_addr # None \/ "connect" \in Stages)) =>
        LET a == The(ca_arg) IN
        /\ a.convertible
        /\ ca_request = Some(a.uri)
        /\ a.uri.host # None
        /\ ca_domain = a.uri.host
        /\ a.uri.port # None \/ a.uri.scheme \in WsSchemes
        /\ ca_port = Some(IF a.uri.port # None THEN The(a.uri.port)
                          ELSE IF a.uri.scheme = Some("ws") THEN DefaultWsPort
                          ELSE DefaultWssPort)
        /\ ca_addr = Some(<<The(a.uri.host), The(ca_port)>>)
        /\ Count("connect") = 1

C18_Witness ==
    /\ entry = "connect_async"
    /\ socket = "connecting"
    /\ The(ca_arg).uri.port = None
    /\ The(ca_arg).uri.scheme = Some("wss")
    /\ ca_addr = Some(<<NumHosts, DefaultWssPort>>)

(***************************************************************************)
(* C19                                                                     *)
(***************************************************************************)
\* C19: when client_async_tls is given a value that does not convert to a
\* request, or a request whose scheme is neither ws nor wss, it fails at the
\* conversion or at the mode resolution, and in no state of the attempt has
\* the upgrader been invoked, a TLS session been started or the protocol
\* handshake been started: the stream is untouched until the failure releases
\* it. The same holds of every attempt, from either entry point, that ends
\* with the error of one of these two steps of client_async_tls.
C19_EarlyFailureLeavesStream ==
    LET untouched ==
            /\ ws_call = None
            /\ tlsSession = "none"
            /\ hs = "none"
            /\ stream = "none"
            /\ Stages \cap {"upgrade", "tls_handshake", "handshake"} = {}
    IN
    /\ (entry = "client_async_tls"
        /\ (~The(ct_arg).convertible \/ The(ct_arg).uri.scheme \notin WsSchemes)) =>
          /\ untouched
          /\ socket = IF pc \in {"done", "dropped"} THEN "closed" ELSE "open"
          /\ pc = "done" =>
                /\ result = "Err"
                /\ error = Some(IF The(ct_arg).convertible THEN ErrModeScheme ELSE ErrRequest)
    /\ (pc = "done" /\ ct_arg # None /\ error \in {Some(ErrRequest), Some(ErrModeScheme)}) =>
          /\ untouched
          /\ socket = "closed"

C19_Witness ==
    /\ entry = "client_async_tls"
    /\ The(ct_arg).convertible
    /\ The(ct_arg).uri.scheme = Some("ftp")
    /\ The(ct_arg).uri.host # None
    /\ pc = "done"
    /\ error = Some(ErrModeScheme)
    /\ socket = "closed"

(***************************************************************************)
(* C20                                                                     *)
(***************************************************************************)
\* The stages a ws attempt goes through and its outcome, by the request and the
\* collaborators' answers alone: the build is not an argument.
PlainStages(e, r, answers) ==
    LET full == CodeStages(e) \o <<"handshake">>
        first == FirstFailing(OrderOf(e), r, answers, TRUE)
    IN
    IF first = "none" THEN full
    ELSE SubSeq(full, 1, CHOOSE i \in DOMAIN full :
                            /\ full[i] = first
                            /\ \A j \in 1..(i - 1) : full[j] # first)

PlainOutcome(e, r, answers) ==
    LET first == FirstFailing(OrderOf(e), r, answers, TRUE)
    IN IF first = "none" THEN "Ok" ELSE first

\* C20: for a request with scheme ws, the stages gone through, in order, and
\* the outcome (success, or the error of the same stage) are those a function
\* of the request and of the collaborators' answers gives, the same for the
\* build with TLS support and the build without; no TLS session is ever
\* started in either build.
C20_BuildsAgreeOnPlain ==
    LET arg == IF entry = "connect_async" THEN The(ca_arg) ELSE The(ct_arg) IN
    (entry # "none" /\ arg.convertible /\ arg.uri.scheme = Some("ws")) =>
        /\ tlsSession = "none"
        /\ "tls_handshake" \notin Stages
        /\ stream \in {"none", "Plain"}
        /\ IsPrefix(trace, PlainStages(entry, arg, env))
        /\ pc = "done" =>
              /\ trace = PlainStages(entry, arg, env)
              /\ (IF result = "Ok" THEN "Ok" ELSE StageOf(The(error)))
                    = PlainOutcome(entry, arg, env)

C20_Witness ==
    /\ ~tls
    /\ entry = "connect_async"
    /\ The(ca_arg).uri.scheme = Some("ws")
    /\ pc = "done"
    /\ result = "Ok"
    /\ stream = "Plain"
    /\ trace = <<"convert", "host", "port", "connect", "convert", "mode", "upgrade", "handshake">>

====
